---- MODULE Spec2Model ----
(***************************************************************************)
(* RemoveBackground: the command-line entry point main() and the function  *)
(* remove_background(input_path, output_path) it calls.                    *)
(*                                                                         *)
(* A behaviour is one invocation of main() after argument parsing.  Path   *)
(* strings are sequences of one-character strings and the pathlib          *)
(* operations the code uses (Path(), str(), name, suffix, stem, parent,    *)
(* "/" and with_suffix) are computed character by character as             *)
(* PurePosixPath computes them (Python 3.7 to 3.13).  The filesystem, the  *)
(* segmentation collaborator rembg.remove and the PIL decoder/encoder are  *)
(* the environment: each of their calls either succeeds or raises one of   *)
(* the Exception subclasses they document.                                 *)
(***************************************************************************)
EXTENDS Integers, Sequences, FiniteSets, TLC

VARIABLES
    input_path,     \* args.input: the string given on the command line
    output_arg,     \* args.output: a string, or None when -o is absent
    input_kind,     \* what the filesystem holds at Path(input_path) when validated
    pc,             \* position in main() / remove_background()
    output_path,    \* remove_background's local output_path
    handles,        \* the file handles currently open
    exc,            \* the exception in flight or last caught, NoExc if none
    result,         \* the value remove_background returned, None before
    input_opens,    \* times the input file was opened
    remove_calls,   \* times rembg.remove was invoked
    written,        \* the path the output file was created at, None if none
    exit_status     \* <<>> while running, <<code>> once main() returned

vars == <<input_path, output_arg, input_kind, pc, output_path, handles, exc,
          result, input_opens, remove_calls, written, exit_status>>

\* Longest argument, in chunks of Chunks.
MaxChunks == 4

None == <<"<None>">>
\* An exception is its class, its str() and its __context__ (the exception
\* being handled when it was raised, as a sequence of at most one).
NoExc == [type |-> "", msg |-> <<>>, context |-> <<>>]

----------------------------------------------------------------------------
(* Strings *)

Lit_a == <<"a">>
Lit_dot == <<".">>
Lit_slash == <<"/">>
Lit_png == <<".", "p", "n", "g">>
Lit_PNG == <<".", "P", "N", "G">>
Lit_nobg_png == <<"_", "n", "o", "b", "g", ".", "p", "n", "g">>

\* The pieces command-line arguments are built from.
Chunks == {Lit_a, Lit_dot, Lit_slash, Lit_png, Lit_PNG}

RECURSIVE StringsOf(_)
StringsOf(n) ==
    IF n = 0 THEN {<<>>}
    ELSE LET shorter == StringsOf(n - 1)
         IN  shorter \cup {s \o c : s \in shorter, c \in Chunks}

ArgStrings == StringsOf(MaxChunks)

\* str.lower() on the characters of the model's alphabet.
LowerChar(c) ==
    CASE c = "P" -> "p"
      [] c = "N" -> "n"
      [] c = "G" -> "g"
      [] OTHER -> c

Lower(s) == [i \in 1..Len(s) |-> LowerChar(s[i])]

\* str.rfind('.'): the 0-based index of the last dot, -1 when there is none.
RFindDot(s) ==
    LET dots == {i \in 1..Len(s) : s[i] = "."}
    IN  IF dots = {} THEN 0 - 1
        ELSE (CHOOSE i \in dots : \A j \in dots : j <= i) - 1

\* str.split('/')
RECURSIVE SplitSlash(_)
SplitSlash(s) ==
    LET slashes == {i \in 1..Len(s) : s[i] = "/"}
    IN  IF slashes = {} THEN <<s>>
        ELSE LET k == CHOOSE i \in slashes : \A j \in slashes : i <= j
             IN  <<SubSeq(s, 1, k - 1)>> \o SplitSlash(SubSeq(s, k + 1, Len(s)))

\* '/'.join(parts)
RECURSIVE JoinSlash(_)
JoinSlash(parts) ==
    IF Len(parts) = 0 THEN <<>>
    ELSE IF Len(parts) = 1 THEN parts[1]
    ELSE parts[1] \o Lit_slash \o JoinSlash(Tail(parts))

\* str.lstrip('/')
RECURSIVE LStripSlash(_)
LStripSlash(s) ==
    IF Len(s) > 0 /\ s[1] = "/" THEN LStripSlash(Tail(s)) ELSE s

EndsWith(s, t) ==
    Len(s) >= Len(t) /\ SubSeq(s, Len(s) - Len(t) + 1, Len(s)) = t

----------------------------------------------------------------------------
(* pathlib.PurePosixPath *)

\* _PosixFlavour.splitroot: exactly two leading slashes are kept as the root.
SplitRoot(s) ==
    IF Len(s) > 0 /\ s[1] = "/"
    THEN LET stripped == LStripSlash(s)
         IN  IF Len(s) - Len(stripped) = 2
             THEN [root |-> <<"/", "/">>, rel |-> stripped]
             ELSE [root |-> Lit_slash, rel |-> stripped]
    ELSE [root |-> <<>>, rel |-> s]

\* Path(s): the root and the components, empty and '.' components dropped.
ParsePath(s) ==
    LET sr == SplitRoot(s)
    IN  [root |-> sr.root,
         parts |-> SelectSeq(SplitSlash(sr.rel), LAMBDA x : x # <<>> /\ x # Lit_dot)]

\* str(path)
PathStr(p) ==
    IF p.root = <<>> /\ p.parts = <<>> THEN Lit_dot
    ELSE p.root \o JoinSlash(p.parts)

\* path.name
PathName(p) == IF p.parts = <<>> THEN <<>> ELSE p.parts[Len(p.parts)]

\* path.suffix: from the last dot of the name, unless that dot is the name's
\* first or last character.
NameSuffix(name) ==
    LET i == RFindDot(name)
    IN  IF 0 < i /\ i < Len(name) - 1 THEN SubSeq(name, i + 1, Len(name)) ELSE <<>>

PathSuffix(p) == NameSuffix(PathName(p))

\* path.stem
NameStem(name) ==
    LET i == RFindDot(name)
    IN  IF 0 < i /\ i < Len(name) - 1 THEN SubSeq(name, 1, i) ELSE name

PathStem(p) == NameStem(PathName(p))

\* path.parent
PathParent(p) ==
    IF p.parts = <<>> THEN p
    ELSE [root |-> p.root, parts |-> SubSeq(p.parts, 1, Len(p.parts) - 1)]

\* path / child, for a child string without a root.
PathJoin(p, child) ==
    [root |-> p.root, parts |-> p.parts \o ParsePath(child).parts]

\* path.with_suffix(suffix), defined when the name is not empty.
WithSuffix(p, suffix) ==
    LET name == PathName(p)
        old == NameSuffix(name)
        new == IF old = <<>> THEN name \o suffix
               ELSE SubSeq(name, 1, Len(name) - Len(old)) \o suffix
    IN  [root |-> p.root,
         parts |-> SubSeq(p.parts, 1, Len(p.parts) - 1) \o <<new>>]

IsAbsolute(s) == ParsePath(s).root # <<>>

----------------------------------------------------------------------------
(* Exceptions *)

\* The direct base class of each exception class the model raises.
BaseOf(type) ==
    CASE type = "FileNotFoundError" -> "OSError"
      [] type = "PermissionError" -> "OSError"
      [] type = "UnidentifiedImageError" -> "OSError"
      [] type = "OSError" -> "Exception"
      [] type = "ValueError" -> "Exception"
      [] type = "RuntimeError" -> "Exception"
      [] type = "Exception" -> "BaseException"
      [] OTHER -> "object"

\* isinstance(e, cls) for an exception e of class type.
RECURSIVE IsInstance(_, _)
IsInstance(type, cls) ==
    IF type = cls THEN TRUE
    ELSE IF type \in {"object", "BaseException"} THEN FALSE
    ELSE IsInstance(BaseOf(type), cls)

\* str(e) of an exception the environment raises.
CauseMsg(type) ==
    CASE type = "FileNotFoundError" -> <<"[Errno 2] No such file or directory">>
      [] type = "PermissionError" -> <<"[Errno 13] Permission denied">>
      [] type = "UnidentifiedImageError" -> <<"cannot identify image file">>
      [] type = "OSError" -> <<"[Errno 5] Input/output error">>
      [] OTHER -> <<"inference failed">>

Raised(type) == [type |-> type, msg |-> CauseMsg(type), context |-> <<>>]

\* What each environment call can raise.
StatFaults == {"PermissionError"}
OpenFaults == {"FileNotFoundError", "PermissionError"}
ReadFaults == {"OSError"}
RemoveFaults == {"UnidentifiedImageError", "RuntimeError"}
DecodeFaults == {"UnidentifiedImageError"}
SaveOpenFaults == {"FileNotFoundError", "PermissionError"}
SaveWriteFaults == {"OSError"}

----------------------------------------------------------------------------
(* remove_background: validation and output-path resolution *)

\* Variant: the existence check left out.
ExistsUnchecked(kind) == TRUE

\* Path.exists(): False only when stat() finds no entry.
Exists(kind) == kind # "missing"

\* Variant: the file-ness check left out.
IsFileUnchecked(kind) == TRUE

\* Path.is_file()
IsFile(kind) == kind = "file"

\* The kinds of filesystem entry a path string can name: a path whose last
\* component is empty or ".." names a directory if it names anything.
KindsOf(path) ==
    LET p == ParsePath(path)
    IN  IF p.parts = <<>> THEN {"dir"}
        ELSE IF PathName(p) = <<".", ".">> THEN {"missing", "dir", "noaccess"}
        ELSE {"missing", "dir", "noaccess", "file"}

\* Variant: the input read without a with block.
CloseOnExitLeak(open_handles, h) == open_handles

\* Leaving a with block closes the handle it opened.
CloseOnExit(open_handles, h) == open_handles \ {h}

\* open() of a path with a trailing slash, or of the empty string, never
\* yields a regular file.
Openable(path) == path # <<>> /\ path[Len(path)] # "/"

\* Variant: the default name built from the whole file name.
DefaultOutputPathFromName(path) ==
    LET input_file == ParsePath(path)
    IN  PathStr(PathJoin(PathParent(input_file), PathName(input_file) \o Lit_nobg_png))

\* output_path is None: beside the input, "<stem>_nobg.png".
DefaultOutputPath(path) ==
    LET input_file == ParsePath(path)
    IN  PathStr(PathJoin(PathParent(input_file), PathStem(input_file) \o Lit_nobg_png))

\* Variant: a suffix is added only when there is none.
NeedsPngSuffixOnlyIfMissing(path) == PathSuffix(ParsePath(path)) = <<>>

\* Variant: the suffix compared without lower().
NeedsPngSuffixCaseSensitive(path) == PathSuffix(ParsePath(path)) # Lit_png

\* The test that sends a caller's output path through with_suffix('.png').
NeedsPngSuffix(path) == Lower(PathSuffix(ParsePath(path))) # Lit_png

\* The else branch: the caller's string as it is when its suffix is a PNG one,
\* otherwise str(with_suffix('.png')); with_suffix raises ValueError on an
\* empty name.
ForcePngSuffix(path) ==
    LET output_file == ParsePath(path)
    IN  IF ~NeedsPngSuffix(path) THEN [exc |-> NoExc, path |-> path]
        ELSE IF PathName(output_file) = <<>>
        THEN [exc |-> [type |-> "ValueError",
                       msg |-> <<"PosixPath('">> \o PathStr(output_file)
                               \o <<"') has an empty name">>,
                       context |-> <<>>],
              path |-> path]
        ELSE [exc |-> NoExc, path |-> PathStr(WithSuffix(output_file, Lit_png))]

\* The two branches, tabulated over the argument strings of the model.
DefaultOutputPaths == [s \in ArgStrings |-> DefaultOutputPath(s)]
ForcedOutputPaths == [s \in ArgStrings |-> ForcePngSuffix(s)]

ResolveOutputPath(inp, out) ==
    IF out = None THEN [exc |-> NoExc, path |-> DefaultOutputPaths[inp]]
    ELSE ForcedOutputPaths[out]

\* Variant: the wrapped message without str(e).
WrapErrorNoCause(e) ==
    [type |-> "ValueError",
     msg |-> <<"Failed to process image">>,
     context |-> <<[type |-> e.type, msg |-> e.msg]>>]

\* Variant: FileNotFoundError re-raised as it is.
WrapErrorKeepNotFound(e) ==
    IF e.type = "FileNotFoundError" THEN e
    ELSE [type |-> "ValueError",
          msg |-> <<"Failed to process image: ">> \o e.msg,
          context |-> <<[type |-> e.type, msg |-> e.msg]>>]

\* except Exception as e: raise ValueError(f"Failed to process image: {str(e)}")
WrapError(e) ==
    IF IsInstance(e.type, "Exception")
    THEN [type |-> "ValueError",
          msg |-> <<"Failed to process image: ">> \o e.msg,
          context |-> <<[type |-> e.type, msg |-> e.msg]>>]
    ELSE e

\* Variant: the catch-all clause placed first.
ExitCodeOfBroadFirst(type) ==
    IF IsInstance(type, "Exception") THEN <<3>>
    ELSE IF IsInstance(type, "FileNotFoundError") THEN <<1>>
    ELSE IF IsInstance(type, "ValueError") THEN <<2>>
    ELSE <<>>

\* main()'s except clauses, first match wins; <<>> when none matches.
ExitCodeOf(type) ==
    IF IsInstance(type, "FileNotFoundError") THEN <<1>>
    ELSE IF IsInstance(type, "ValueError") THEN <<2>>
    ELSE IF IsInstance(type, "Exception") THEN <<3>>
    ELSE <<>>

----------------------------------------------------------------------------
(* The run *)

\* Inputs that accompany an explicit output path.
SampleInputs == {Lit_a, Lit_slash \o Lit_a \o Lit_png}

Init ==
    /\ \/ input_path \in ArgStrings /\ output_arg = None
       \/ input_path \in SampleInputs /\ output_arg \in ArgStrings
    /\ input_kind \in KindsOf(input_path)
    /\ pc = "main"
    /\ output_path = output_arg
    /\ handles = {}
    /\ exc = NoExc
    /\ result = None
    /\ input_opens = 0
    /\ remove_calls = 0
    /\ written = None
    /\ exit_status = <<>>

\* main(): enter the try block and call remove_background(args.input, args.output).
CallRemoveBackground ==
    /\ pc = "main"
    /\ pc' = "exists"
    /\ UNCHANGED <<input_path, output_arg, input_kind, output_path, handles, exc,
                   result, input_opens, remove_calls, written, exit_status>>

\* if not input_file.exists(): raise FileNotFoundError
CheckExists ==
    /\ pc = "exists"
    /\ IF input_kind = "noaccess"
       THEN \E t \in StatFaults : exc' = Raised(t) /\ pc' = "handler"
       ELSE IF ~Exists(input_kind)
       THEN /\ exc' = [type |-> "FileNotFoundError",
                       msg |-> <<"Input file not found: ">> \o input_path,
                       context |-> <<>>]
            /\ pc' = "handler"
       ELSE exc' = exc /\ pc' = "is_file"
    /\ UNCHANGED <<input_path, output_arg, input_kind, output_path, handles,
                   result, input_opens, remove_calls, written, exit_status>>

\* if not input_file.is_file(): raise ValueError
CheckIsFile ==
    /\ pc = "is_file"
    /\ IF ~IsFile(input_kind)
       THEN /\ exc' = [type |-> "ValueError",
                       msg |-> <<"Input path is not a file: ">> \o input_path,
                       context |-> <<>>]
            /\ pc' = "handler"
       ELSE exc' = exc /\ pc' = "resolve"
    /\ UNCHANGED <<input_path, output_arg, input_kind, output_path, handles,
                   result, input_opens, remove_calls, written, exit_status>>

\* The if/else that sets output_path; with_suffix's ValueError is raised
\* outside the try block and reaches main() as it is.
ResolveOutput ==
    /\ pc = "resolve"
    /\ exc' = ResolveOutputPath(input_path, output_path).exc
    /\ output_path' = ResolveOutputPath(input_path, output_path).path
    /\ pc' = IF exc' = NoExc THEN "open" ELSE "handler"
    /\ UNCHANGED <<input_path, output_arg, input_kind, handles,
                   result, input_opens, remove_calls, written, exit_status>>

\* with open(input_path, 'rb') as input_file:
OpenInput ==
    /\ pc = "open"
    /\ \/ /\ Openable(input_path)
          /\ handles' = handles \cup {"input"}
          /\ input_opens' = input_opens + 1
          /\ pc' = "read"
          /\ exc' = exc
       \/ /\ \E t \in OpenFaults : exc' = Raised(t)
          /\ pc' = "except"
          /\ UNCHANGED <<handles, input_opens>>
    /\ UNCHANGED <<input_path, output_arg, input_kind, output_path,
                   result, remove_calls, written, exit_status>>

\* input_data = input_file.read(), then the with block closes the handle,
\* whether read() returned or raised.
ReadInput ==
    /\ pc = "read"
    /\ handles' = CloseOnExit(handles, "input")
    /\ \/ pc' = "remove" /\ exc' = exc
       \/ /\ \E t \in ReadFaults : exc' = Raised(t)
          /\ pc' = "except"
    /\ UNCHANGED <<input_path, output_arg, input_kind, output_path,
                   result, input_opens, remove_calls, written, exit_status>>

\* output_data = remove(input_data)
CallRemove ==
    /\ pc = "remove"
    /\ remove_calls' = remove_calls + 1
    /\ \/ pc' = "decode" /\ exc' = exc
       \/ /\ \E t \in RemoveFaults : exc' = Raised(t)
          /\ pc' = "except"
    /\ UNCHANGED <<input_path, output_arg, input_kind, output_path, handles,
                   result, input_opens, written, exit_status>>

\* output_image = Image.open(BytesIO(output_data)): decodes from memory.
DecodeResult ==
    /\ pc = "decode"
    /\ \/ pc' = "save" /\ exc' = exc
       \/ /\ \E t \in DecodeFaults : exc' = Raised(t)
          /\ pc' = "except"
    /\ UNCHANGED <<input_path, output_arg, input_kind, output_path, handles,
                   result, input_opens, remove_calls, written, exit_status>>

\* output_image.save(output_path, 'PNG'): save() opens the file for writing.
SaveOpen ==
    /\ pc = "save"
    /\ \/ /\ Openable(output_path)
          /\ handles' = handles \cup {"output"}
          /\ written' = output_path
          /\ pc' = "save_write"
          /\ exc' = exc
       \/ /\ \E t \in SaveOpenFaults : exc' = Raised(t)
          /\ pc' = "except"
          /\ UNCHANGED <<handles, written>>
    /\ UNCHANGED <<input_path, output_arg, input_kind, output_path,
                   result, input_opens, remove_calls, exit_status>>

\* save() encodes into the file and closes it, whether encoding succeeded
\* or raised.
SaveWrite ==
    /\ pc = "save_write"
    /\ handles' = handles \ {"output"}
    /\ \/ pc' = "return" /\ exc' = exc
       \/ /\ \E t \in SaveWriteFaults : exc' = Raised(t)
          /\ pc' = "except"
    /\ UNCHANGED <<input_path, output_arg, input_kind, output_path,
                   result, input_opens, remove_calls, written, exit_status>>

\* return output_path
Return ==
    /\ pc = "return"
    /\ result' = output_path
    /\ pc' = "report"
    /\ UNCHANGED <<input_path, output_arg, input_kind, output_path, handles, exc,
                   input_opens, remove_calls, written, exit_status>>

\* except Exception as e: raise ValueError(...)
Except ==
    /\ pc = "except"
    /\ exc' = WrapError(exc)
    /\ pc' = "handler"
    /\ UNCHANGED <<input_path, output_arg, input_kind, output_path, handles,
                   result, input_opens, remove_calls, written, exit_status>>

\* main(): print the result and return 0.
MainReturn ==
    /\ pc = "report"
    /\ exit_status' = <<0>>
    /\ pc' = "exit"
    /\ UNCHANGED <<input_path, output_arg, input_kind, output_path, handles, exc,
                   result, input_opens, remove_calls, written>>

\* main(): the except clauses; an exception none of them matches leaves main().
MainExcept ==
    /\ pc = "handler"
    /\ exit_status' = ExitCodeOf(exc.type)
    /\ pc' = IF ExitCodeOf(exc.type) = <<>> THEN "escaped" ELSE "exit"
    /\ UNCHANGED <<input_path, output_arg, input_kind, output_path, handles, exc,
                   result, input_opens, remove_calls, written>>

Next ==
    \/ CallRemoveBackground
    \/ CheckExists
    \/ CheckIsFile
    \/ ResolveOutput
    \/ OpenInput
    \/ ReadInput
    \/ CallRemove
    \/ DecodeResult
    \/ SaveOpen
    \/ SaveWrite
    \/ Return
    \/ Except
    \/ MainReturn
    \/ MainExcept

Spec == Init /\ [][Next]_vars

\* main() is straight-line, single-threaded code: a step that can be taken is taken.
FairSpec == Spec /\ WF_vars(Next)

----------------------------------------------------------------------------
(* Properties *)

\* remove_background has set output_path and has not failed since.
Resolved ==
    pc \in {"open", "read", "remove", "decode", "save", "save_write", "return", "report"}

\* remove_background raised inside its try block.
FailedInTry ==
    /\ pc \in {"handler", "exit"}
    /\ result = None
    /\ input_kind = "file"
    /\ ResolveOutputPath(input_path, output_arg).exc = NoExc

ExitCodeMatches ==
    /\ pc # "escaped"
    /\ (pc # "exit" => exit_status = <<>>)
    /\ (pc = "exit" =>
          /\ Len(exit_status) = 1
          /\ exit_status[1] \in 0..3
          /\ exit_status[1] = (CASE result # None -> 0
                                 [] result = None /\ exc.type = "FileNotFoundError" -> 1
                                 [] result = None /\ exc.type = "ValueError" -> 2
                                 [] OTHER -> 3))

C3_ValidationOrder ==
    /\ (input_kind = "missing" /\ pc \notin {"main", "exists"} =>
          /\ pc \in {"handler", "exit"}
          /\ exc.type = "FileNotFoundError"
          /\ exc.msg = <<"Input file not found: ">> \o input_path
          /\ output_path = output_arg)
    /\ (input_kind = "dir" /\ pc \notin {"main", "exists", "is_file"} =>
          /\ pc \in {"handler", "exit"}
          /\ exc.type = "ValueError"
          /\ exc.msg = <<"Input path is not a file: ">> \o input_path
          /\ output_path = output_arg)

\* A directory input rejected although the output argument, with its empty
\* name, would have raised too.
C3_Witness ==
    /\ pc = "exit"
    /\ input_kind = "dir"
    /\ exc.type = "ValueError"
    /\ output_arg # None
    /\ PathName(ParsePath(output_arg)) = <<>>

\* C4: a failure inside the try block (read, collaborator, decode, write)
\* reaches main() as a ValueError whose message is 'Failed to process
\* image: ' followed by the message of the exception it wraps, and main()
\* exits with code 2.
C4_ProcessingFailureWrapped ==
    FailedInTry =>
        /\ exc.type = "ValueError"
        /\ Len(exc.context) = 1
        /\ exc.msg = <<"Failed to process image: ">> \o exc.context[1].msg
        /\ (pc = "exit" => exit_status = <<2>>)

\* The collaborator rejected the input's content and the run exited with 2.
C4_Witness ==
    /\ pc = "exit"
    /\ exit_status = <<2>>
    /\ remove_calls = 1
    /\ exc.context = <<[type |-> "UnidentifiedImageError",
                        msg |-> CauseMsg("UnidentifiedImageError")]>>

\* C5: with no output path, the resolved output path lies in the input's
\* directory and its name is the input's name without its last suffix,
\* followed by '_nobg.png'.
C5_DefaultOutputName ==
    output_arg = None /\ Resolved =>
        LET inp == ParsePath(input_path)
            out == ParsePath(output_path)
            name == PathName(out)
        IN  /\ PathParent(out) = PathParent(inp)
            /\ EndsWith(name, Lit_nobg_png)
            /\ SubSeq(name, 1, Len(name) - Len(Lit_nobg_png)) \o PathSuffix(inp)
                 = PathName(inp)

\* A default output path derived from an input name with several dots.
C5_Witness ==
    /\ output_arg = None
    /\ exit_status = <<0>>
    /\ PathSuffix(ParsePath(input_path)) # <<>>
    /\ NameSuffix(PathStem(ParsePath(input_path))) # <<>>

\* C6 (as stated): a caller's output path that ends in '.png', compared
\* case-insensitively, is kept unchanged; any other has its suffix replaced
\* by '.png', directory and stem kept.
C6_PassThroughIfEndsInPng ==
    output_arg # None /\ Resolved =>
        IF EndsWith(Lower(output_arg), Lit_png)
        THEN output_path = output_arg
        ELSE LET arg == ParsePath(output_arg)
                 out == ParsePath(output_path)
             IN  /\ PathParent(out) = PathParent(arg)
                 /\ PathStem(out) = PathStem(arg)
                 /\ PathSuffix(out) = Lit_png

\* C6 (amended): a caller's output path is kept unchanged when its last
\* component is a non-empty stem followed by '.png', compared
\* case-insensitively; any other path has a last component (a path without
\* one raises ValueError before the try block) and is resolved to the
\* normalised path with that component's suffix replaced by '.png',
\* directory and stem kept.
C6_PassThroughIfPngSuffix ==
    output_arg # None /\ Resolved =>
        LET arg == ParsePath(output_arg)
            out == ParsePath(output_path)
            name == PathName(arg)
        IN  IF Len(name) > Len(Lit_png) /\ EndsWith(Lower(name), Lit_png)
            THEN output_path = output_arg
            ELSE /\ name # <<>>
                 /\ output_path = PathStr(out)
                 /\ PathParent(out) = PathParent(arg)
                 /\ PathStem(out) = PathStem(arg)
                 /\ PathSuffix(out) = Lit_png

\* An output path whose last component is exactly '.png': it has no suffix
\* and '.png' is appended.
C6_Witness ==
    /\ output_arg # None
    /\ Resolved
    /\ PathName(ParsePath(output_arg)) = Lit_png
    /\ PathName(ParsePath(output_path)) = Lit_png \o Lit_png

\* C7: the value remove_background returns is an absolute path and names
\* the file the result was written to.
C7_ReturnsAbsolutePath ==
    result # None => IsAbsolute(result) /\ written = result

\* C8: the input is opened, the collaborator invoked and the output file
\* created only after validation has passed: never while validating, and
\* never in a run whose input is not an existing regular file, which also
\* holds no handle.
C8_NoEffectBeforeValidation ==
    /\ (input_opens > 0 \/ remove_calls > 0 \/ written # None \/ handles # {} =>
          input_kind = "file" /\ pc \notin {"main", "exists", "is_file", "resolve"})
    /\ (written # None => remove_calls > 0)
    /\ (remove_calls > 0 => input_opens > 0)

\* A run rejected by validation that has exited, nothing touched.
C8_Witness ==
    /\ pc = "exit"
    /\ input_kind \in {"missing", "dir"}
    /\ exit_status \in {<<1>>, <<2>>}
    /\ input_opens = 0 /\ remove_calls = 0 /\ written = None

\* C9: at most one file handle is open at any time; none is open while the
\* collaborator runs, while its result is decoded or before the output is
\* opened; only the output handle is open while writing; none is open when
\* remove_background has returned or raised.
C9_OneHandleAtATime ==
    /\ Cardinality(handles) <= 1
    /\ (pc \in {"remove", "decode", "save"} => handles = {})
    /\ (pc = "save_write" => handles = {"output"})
    /\ (pc \in {"return", "report", "except", "handler", "exit", "escaped"} => handles = {})

\* The output handle open for writing after the input was opened and closed.
C9_Witness ==
    pc = "save_write" /\ handles = {"output"} /\ input_opens = 1

\* C10: exit code 1 is produced only when the existence check failed, before
\* anything was opened; a FileNotFoundError raised after validation is
\* wrapped and the run exits with 2.
C10_NotFoundOnlyFromValidation ==
    /\ (exit_status = <<1>> =>
          /\ input_kind = "missing"
          /\ exc.context = <<>>
          /\ input_opens = 0
          /\ written = None)
    /\ (pc = "exit" /\ exc.context # <<>> => exit_status = <<2>>)

\* The output's directory vanished: FileNotFoundError from save(), exit 2.
C10_Witness ==
    /\ pc = "exit"
    /\ exit_status = <<2>>
    /\ remove_calls = 1
    /\ written = None
    /\ exc.context = <<[type |-> "FileNotFoundError",
                        msg |-> CauseMsg("FileNotFoundError")]>>

====
